---- MODULE Spec2Model ----
(***************************************************************************)
(* rag-forge: the retrieval-augmented answer pipeline (src/src/rag.py,     *)
(* src/src/llm_providers/fallback.py, src/src/es_client.py) and the        *)
(* document ingestion pipeline (src/src/ingest.py, src/src/main.py).       *)
(*                                                                         *)
(* Every await of the code is one position (pc) of the coroutine; the      *)
(* external call in flight at that position resolves in one action per     *)
(* outcome the awaited call can have (returns, raises, deadline expires).  *)
(* Strings the code inspects are sequences of characters.                  *)
(***************************************************************************)
EXTENDS Integers, Sequences, FiniteSets, TLC

\* ------------------------------------------------------------------ bounds
\* records the index may hold before a question is answered
MaxDocs == 2
\* files of one upload
MaxFiles == 2
\* chunks the splitter makes of one document
MaxChunks == 2
\* coroutines that call ESClient.get_client concurrently
MaxCallers == 3
\* characters of a text given to normalize_text
MaxLen == 5

\* ------------------------------------------------------- program constants
\* retrieve_context(question, top_k = 5)
TopK == 5

VARIABLES
    \* ---- the vector engine and its process-wide handle
    esInstance,     \* ESClient._instance is set
    indexExists,    \* the engine has the index settings.ES_INDEX
    esIndex,        \* the records of the index
    \* ---- configuration
    primarySetting, \* settings.PRIMARY_LLM_PROVIDER
    \* ---- one rag_answer(question) call
    question,       \* the question, a sequence of characters
    rpc,            \* position of the rag_answer coroutine
    gcRet,          \* the position get_client returns to
    calls,          \* external calls issued so far, in order
    questionVector, \* the embedding of the question, once computed
    emptyCheck,     \* what is_index_empty returned
    contexts,       \* retrieve_context's result
    llmProvider,    \* the FallbackLLMProvider built by create_llm_provider
    prompt,         \* the prompt generate_answer built
    primaryError,   \* the primary's error e, kept while the fallback runs
    fallbackError,  \* the fallback's error fallback_error
    completion,     \* how generate_completion ended
    ragResult,      \* what rag_answer returned or raised
    \* ---- one upload_documents(files) call
    files,          \* the uploaded files' names, sequences of characters
    upc,            \* position of the upload_documents coroutine
    failed_files,   \* the failed_files list
    valid_files,    \* the valid_files list, as positions in files
    response,       \* what upload_documents returned or raised
    uploadNo,       \* the number of this upload among the uploads served
    \* ---- process_single_file(file), one unit per valid file
    unitPc,         \* position of each unit's coroutine
    tmpCopy,        \* the unit's temporary copy of the upload exists
    unitChunks,     \* len(chunks) of the unit's document
    unitCalls,      \* the stage calls the unit issued, in order
    stageFailure,   \* the stage of process_document that failed, if any
    pdOutcome,      \* how the unit's process_document call ended
    unitResult,     \* what process_single_file returned
    insertOutcome,  \* how the unit's insert_chunks call ended
    sidecar,        \* the sidecar text file of the unit's OCR run exists
    extracted,      \* how the unit's extract_text_from_pdf call ended
    \* ---- concurrent ESClient.get_client() calls
    cpc,            \* position of each caller's coroutine
    lockHolder,     \* the caller holding ESClient._lock, 0 if it is free
    handlesMade,    \* AsyncElasticsearch objects constructed so far
    got,            \* what get_client returned to, or raised in, each caller
    indexCalls,     \* the index calls create_index issued, in order
    \* ---- normalize_text(text), and normalize_text of its result
    textIn,         \* the text, a sequence of characters
    tpc,            \* how often normalize_text has been applied
    normalized,     \* normalize_text(textIn)
    renormalized,   \* normalize_text(normalized)
    \* ---- one GET /health request
    clusterStatus,  \* the engine's cluster status
    hpc,            \* position of the health_check coroutine
    cluster_health, \* the status client.cluster.health() answered
    health_info,    \* what check_health returned
    healthResponse, \* what health_check returned or raised
    \* ---- concurrent run_ocrmypdf calls
    opc,            \* position of each run_ocrmypdf coroutine
    ocrTmp,         \* the run's temporary output PDF exists
    ocrOutcome,     \* how the run ends: the text returned, or the error raised
    ocrLog,         \* the levels of the log entries the run wrote, in order
    \* ---- one ESClient.close() call
    clpc,           \* position of the close coroutine
    closingHandle,  \* the object whose close() is awaited, 0 if none
    closedHandles   \* the AsyncElasticsearch objects closed so far

envVars == <<esInstance, indexExists, esIndex>>
ragVars == <<primarySetting, question, rpc, gcRet, calls, questionVector,
             emptyCheck, contexts, llmProvider, prompt, primaryError, fallbackError,
             completion, ragResult>>
uploadVars == <<files, upc, failed_files, valid_files, response, uploadNo>>
unitVars == <<unitPc, tmpCopy, unitChunks, unitCalls, stageFailure, pdOutcome,
              unitResult, insertOutcome, sidecar, extracted>>
clientVars == <<cpc, lockHolder, handlesMade, got, indexCalls>>
\* the state of the operations that are neither rag_answer nor upload_documents
textVars == <<textIn, tpc, normalized, renormalized>>
healthVars == <<clusterStatus, hpc, cluster_health, health_info, healthResponse>>
ocrVars == <<opc, ocrTmp, ocrOutcome, ocrLog>>
closeVars == <<clpc, closingHandle, closedHandles>>
sideVars == <<clientVars, textVars, healthVars, ocrVars, closeVars>>
vars == <<envVars, ragVars, uploadVars, unitVars, sideVars>>

\* ------------------------------------------------------------ characters
IsSpace(c) == c \in {" ", "\t", "\n"}

\* str.lstrip() / str.rstrip() / str.strip()
RECURSIVE LStrip(_)
LStrip(s) == IF s = <<>> THEN <<>>
             ELSE IF IsSpace(Head(s)) THEN LStrip(Tail(s)) ELSE s

RECURSIVE RStrip(_)
RStrip(s) == IF s = <<>> THEN <<>>
             ELSE IF IsSpace(s[Len(s)]) THEN RStrip(SubSeq(s, 1, Len(s) - 1)) ELSE s

Strip(s) == RStrip(LStrip(s))

\* ------------------------------------------------------------- small helpers
Min(a, b) == IF a < b THEN a ELSE b

Count(seq, x) == Cardinality({i \in 1..Len(seq) : seq[i] = x})

\* the sequences that list every element of the set S once
Rankings(S) ==
    {f \in [1..Cardinality(S) -> S] : \A i, j \in 1..Cardinality(S) : f[i] = f[j] => i = j}

\* ------------------------------------------------------ the question pipeline
\* rag_answer's fixed answers
NoDocumentsMsg == "I apologize, but there are no documents in the knowledge base yet."
InsufficientContextMsg == "I apologize, but I don't have enough context to answer your question accurately."
GenerationTimeoutMsg == "I apologize, but I was unable to generate an answer in time. Please try again."

Questions == { <<>>, <<" ">>, <<"q">>, <<" ", "q", "\n">> }
ProviderSettings == {"openai", "deepseek"}
EngineErrors == {"ConnectionError"}
EmbeddingErrors == {"APIError"}
ProviderErrors == {"RateLimitError", "APIConnectionError"}

\* str(e) of an error a provider's call raised
NoError == <<>>
ErrorOf(name, e) == <<name, e>>
\* a literal part of a message
Lit(text) == <<text>>

\* response.choices[0].message.content of each provider
ProviderText(name) ==
    IF name = "OpenAI" THEN "completion of OpenAI" ELSE "completion of DeepSeek"

\* a record of the index; content stands for the chunk's text
Record(id, doc, k) == [id |-> id, content |-> <<doc, k>>, source |-> doc]
\* file_path.name of the temporary copy of the n-th file of an upload
TmpName(n) == <<"tmp", n>>
SeedIndex(n) == {Record(<<0, 0, i>>, TmpName(0), i) : i \in 1..n}

\* FallbackLLMProvider.__init__: the order of the two providers
FallbackLLMProvider(setting) ==
    [primary_name  |-> IF setting = "deepseek" THEN "DeepSeek" ELSE "OpenAI",
     fallback_name |-> IF setting = "deepseek" THEN "OpenAI" ELSE "DeepSeek"]

\* the message with the primary's cause left out
BothFailedMessageFallbackOnly(e, fallback_error) ==
    <<Lit("Both LLM providers failed. Fallback error: "), fallback_error>>

\* the message of the error raised when both providers failed
BothFailedMessage(e, fallback_error) ==
    <<Lit("Both LLM providers failed. Primary error: "), e,
      Lit(", Fallback error: "), fallback_error>>

NoResult == [kind |-> "none", answer |-> "", contexts |-> <<>>, error |-> <<>>]
Returned(answer, ctx) ==
    [kind |-> "returned", answer |-> answer, contexts |-> ctx, error |-> <<>>]
Raised(err) == [kind |-> "raised", answer |-> "", contexts |-> <<>>, error |-> err]

\* the external call awaited at each position of the coroutine
CallAt(pc) ==
    CASE pc = "gc_exists" -> <<"es.indices.exists">>
      [] pc = "gc_create" -> <<"es.indices.create">>
      [] pc = "ie_exists" -> <<"es.indices.exists">>
      [] pc = "ie_count"  -> <<"es.count">>
      [] pc = "embed"     -> <<"embeddings.aembed_query">>
      [] pc = "search"    -> <<"es.search">>
      [] OTHER            -> <<>>

\* move to position pc, issuing the call awaited there
Go(pc) == /\ rpc' = pc
          /\ calls' = calls \o CallAt(pc)

\* rag_answer ends with result r
Finish(r) == /\ rpc' = "done"
             /\ ragResult' = r
             /\ calls' = calls

\* variables only some actions of the question pipeline change
fixedVars == <<primarySetting, question>>
retrievalVars == <<questionVector, contexts>>
generationVars == <<llmProvider, prompt, primaryError, fallbackError, completion>>

\* how generate_completion ended
NoCompletion == [kind |-> "none", text |-> <<>>, error |-> <<>>]
CompletionText(t) == [kind |-> "text", text |-> t, error |-> <<>>]
CompletionError(msg) == [kind |-> "error", text |-> <<>>, error |-> msg]
CompletionCancelled == [kind |-> "cancelled", text |-> <<>>, error |-> <<>>]

\* the hits of a k-NN search for k neighbours, in the engine's ranked order
RankedHits(k) ==
    UNION { Rankings(S) :
            S \in {T \in SUBSET esIndex : Cardinality(T) = Min(k, Cardinality(esIndex))} }

\* rag_answer: try: if await ESClient.is_index_empty(): ...
RagAnswerEntry ==
    /\ rpc = "start"
    /\ rpc' = "gc"
    /\ gcRet' = "ie_exists"
    /\ UNCHANGED <<envVars, fixedVars, calls, emptyCheck, retrievalVars,
                   generationVars, ragResult>>

\* ESClient.get_client with the handle cached: returns at once
GetClientCached ==
    /\ rpc = "gc"
    /\ esInstance
    /\ Go(gcRet)
    /\ UNCHANGED <<envVars, fixedVars, gcRet, emptyCheck, retrievalVars,
                   generationVars, ragResult>>

\* ESClient.get_client without a handle: construct it, then create_index
GetClientConstruct ==
    /\ rpc = "gc"
    /\ ~esInstance
    /\ esInstance' = TRUE
    /\ Go("gc_exists")
    /\ UNCHANGED <<indexExists, esIndex, fixedVars, gcRet, emptyCheck,
                   retrievalVars, generationVars, ragResult>>

\* create_index: indices.exists answered
CreateIndexExistsReturns ==
    /\ rpc = "gc_exists"
    /\ IF indexExists THEN Go(gcRet) ELSE Go("gc_create")
    /\ UNCHANGED <<envVars, fixedVars, gcRet, emptyCheck, retrievalVars,
                   generationVars, ragResult>>

\* create_index: indices.create answered
CreateIndexCreateReturns ==
    /\ rpc = "gc_create"
    /\ indexExists' = TRUE
    /\ Go(gcRet)
    /\ UNCHANGED <<esInstance, esIndex, fixedVars, gcRet, emptyCheck,
                   retrievalVars, generationVars, ragResult>>

\* create_index raises: get_client raises to its caller; is_index_empty turns
\* it into True, retrieve_context and rag_answer re-raise it
CreateIndexRaises ==
    /\ rpc \in {"gc_exists", "gc_create"}
    /\ \E e \in EngineErrors :
         IF gcRet = "ie_exists"
         THEN /\ emptyCheck' = "empty"
              /\ rpc' = "ie_done"
              /\ UNCHANGED <<calls, ragResult>>
         ELSE /\ Finish(Raised(<<Lit(e)>>))
              /\ UNCHANGED emptyCheck
    /\ UNCHANGED <<envVars, fixedVars, gcRet, retrievalVars, generationVars>>

\* is_index_empty: indices.exists answered
IsEmptyExistsReturns ==
    /\ rpc = "ie_exists"
    /\ IF ~indexExists
       THEN /\ emptyCheck' = "empty"
            /\ rpc' = "ie_done"
            /\ UNCHANGED calls
       ELSE /\ Go("ie_count")
            /\ UNCHANGED emptyCheck
    /\ UNCHANGED <<envVars, fixedVars, gcRet, retrievalVars, generationVars,
                   ragResult>>

\* is_index_empty: count answered: return result["count"] == 0
IsEmptyCountReturns ==
    /\ rpc = "ie_count"
    /\ indexExists
    /\ emptyCheck' = IF Cardinality(esIndex) = 0 THEN "empty" ELSE "nonempty"
    /\ rpc' = "ie_done"
    /\ UNCHANGED <<envVars, fixedVars, gcRet, calls, retrievalVars,
                   generationVars, ragResult>>

\* is_index_empty without its except clause: the error leaves rag_answer
IsEmptyRaisesPropagates ==
    /\ rpc \in {"ie_exists", "ie_count"}
    /\ \E e \in EngineErrors : Finish(Raised(<<Lit(e)>>))
    /\ UNCHANGED <<envVars, fixedVars, gcRet, emptyCheck, retrievalVars,
                   generationVars>>

\* is_index_empty: a call raised (count of a missing index raises
\* NotFoundError): except Exception: return True
IsEmptyRaises ==
    /\ rpc \in {"ie_exists", "ie_count"}
    /\ emptyCheck' = "empty"
    /\ rpc' = "ie_done"
    /\ UNCHANGED <<envVars, fixedVars, gcRet, calls, retrievalVars,
                   generationVars, ragResult>>

\* rag_answer without the check of is_index_empty's answer
RagAfterEmptyCheckAlwaysRetrieves ==
    /\ rpc = "ie_done"
    /\ rpc' = "retrieve"
    /\ UNCHANGED <<envVars, fixedVars, gcRet, calls, emptyCheck, retrievalVars,
                   generationVars, ragResult>>

\* rag_answer: the fixed answer for an empty index, or retrieve_context
RagAfterEmptyCheck ==
    /\ rpc = "ie_done"
    /\ IF emptyCheck = "empty"
       THEN Finish(Returned(NoDocumentsMsg, <<>>))
       ELSE rpc' = "retrieve" /\ UNCHANGED <<calls, ragResult>>
    /\ UNCHANGED <<envVars, fixedVars, gcRet, emptyCheck, retrievalVars,
                   generationVars>>

\* the blank check without strip(): if not question
BlankQuestionNoStrip(q) == q = <<>>

\* retrieve_context: if not question.strip()
BlankQuestion(q) == Strip(q) = <<>>

\* retrieve_context: the blank check, then the embedding call is issued
RetrieveContextEntry ==
    /\ rpc = "retrieve"
    /\ IF BlankQuestion(question)
       THEN Finish(Raised(<<Lit("Question cannot be empty")>>))
       ELSE Go("embed") /\ UNCHANGED ragResult
    /\ UNCHANGED <<envVars, fixedVars, gcRet, emptyCheck, retrievalVars,
                   generationVars>>

\* aembed_query answered: async with get_es_client() as client
EmbedReturns ==
    /\ rpc = "embed"
    /\ questionVector' = <<"vector of", question>>
    /\ rpc' = "gc"
    /\ gcRet' = "search"
    /\ UNCHANGED <<envVars, fixedVars, calls, emptyCheck, contexts,
                   generationVars, ragResult>>

\* aembed_query raises, or its 10 s deadline expires: retrieve_context and
\* rag_answer log and re-raise
EmbedRaises ==
    /\ rpc = "embed"
    /\ \E e \in EmbeddingErrors \cup {"TimeoutError"} : Finish(Raised(<<Lit(e)>>))
    /\ UNCHANGED <<envVars, fixedVars, gcRet, emptyCheck, retrievalVars,
                   generationVars>>

\* client.search answered: the contents of the hits, in ranked order
SearchReturns ==
    /\ rpc = "search"
    /\ indexExists
    /\ \E hits \in RankedHits(TopK) :
         contexts' = [i \in 1..Len(hits) |-> hits[i].content]
    /\ rpc' = "generate"
    /\ UNCHANGED <<envVars, fixedVars, gcRet, calls, emptyCheck,
                   questionVector, generationVars, ragResult>>

\* retrieve_context without its except NotFoundError clause
SearchNotFoundRaises ==
    /\ rpc = "search"
    /\ ~indexExists
    /\ Finish(Raised(<<Lit("NotFoundError")>>))
    /\ UNCHANGED <<envVars, fixedVars, gcRet, emptyCheck, retrievalVars,
                   generationVars>>

\* client.search raises NotFoundError: return []
SearchNotFound ==
    /\ rpc = "search"
    /\ ~indexExists
    /\ contexts' = <<>>
    /\ rpc' = "generate"
    /\ UNCHANGED <<envVars, fixedVars, gcRet, calls, emptyCheck,
                   questionVector, generationVars, ragResult>>

\* retrieve_context returning [] for every failure of the search
SearchRaisesAbsorbed ==
    /\ rpc = "search"
    /\ contexts' = <<>>
    /\ rpc' = "generate"
    /\ UNCHANGED <<envVars, fixedVars, gcRet, calls, emptyCheck,
                   questionVector, generationVars, ragResult>>

\* client.search raises another error, or its 35 s deadline expires
SearchRaises ==
    /\ rpc = "search"
    /\ \E e \in EngineErrors \cup {"TimeoutError"} : Finish(Raised(<<Lit(e)>>))
    /\ UNCHANGED <<envVars, fixedVars, gcRet, emptyCheck, retrievalVars,
                   generationVars>>

\* no prompt built
NoPrompt == [context |-> <<>>, question |-> <<>>]

\* ' '.join(contexts)
RECURSIVE JoinContexts(_)
JoinContexts(ctxs) ==
    IF Len(ctxs) <= 1 THEN ctxs
    ELSE <<Head(ctxs), Lit(" ")>> \o JoinContexts(Tail(ctxs))

\* a prompt built of the first context alone
PromptFirstContextOnly(q, ctxs) == [context |-> <<Head(ctxs)>>, question |-> q]

\* the prompt of generate_answer: its fixed text around the joined contexts
\* and the question
Prompt(q, ctxs) == [context |-> JoinContexts(ctxs), question |-> q]

\* generate_answer calling the provider whatever the contexts
GenerateAnswerEntryNoContextCheck ==
    /\ rpc = "generate"
    /\ llmProvider' = FallbackLLMProvider(primarySetting)
    /\ prompt' = NoPrompt
    /\ rpc' = "primary"
    /\ calls' = Append(calls, llmProvider'.primary_name)
    /\ UNCHANGED <<envVars, fixedVars, gcRet, emptyCheck, retrievalVars,
                   primaryError, fallbackError, completion, ragResult>>

\* generate_answer: no contexts, or build the provider and, inside the 30 s
\* deadline, enter generate_completion, which calls the primary
GenerateAnswerEntry ==
    /\ rpc = "generate"
    /\ IF contexts = <<>>
       THEN /\ Finish(Returned(InsufficientContextMsg, contexts))
            /\ UNCHANGED <<llmProvider, prompt>>
       ELSE /\ llmProvider' = FallbackLLMProvider(primarySetting)
            /\ prompt' = Prompt(question, contexts)
            /\ rpc' = "primary"
            /\ calls' = Append(calls, llmProvider'.primary_name)
            /\ UNCHANGED ragResult
    /\ UNCHANGED <<envVars, fixedVars, gcRet, emptyCheck, retrievalVars,
                   primaryError, fallbackError, completion>>

\* generate_completion: the primary answered: return result
PrimaryReturns ==
    /\ rpc = "primary"
    /\ completion' = CompletionText(ProviderText(llmProvider.primary_name))
    /\ rpc' = "gen_done"
    /\ UNCHANGED <<envVars, fixedVars, gcRet, calls, emptyCheck, retrievalVars,
                   llmProvider, prompt, primaryError, fallbackError, ragResult>>

\* generate_completion retrying the primary instead of calling the fallback
PrimaryRaisesRetriesPrimary ==
    /\ rpc = "primary"
    /\ \E e \in ProviderErrors : primaryError' = ErrorOf(llmProvider.primary_name, e)
    /\ rpc' = "fallback"
    /\ calls' = Append(calls, llmProvider.primary_name)
    /\ UNCHANGED <<envVars, fixedVars, gcRet, emptyCheck, retrievalVars,
                   llmProvider, prompt, fallbackError, completion, ragResult>>

\* generate_completion: the primary raised e: call the fallback
PrimaryRaises ==
    /\ rpc = "primary"
    /\ \E e \in ProviderErrors : primaryError' = ErrorOf(llmProvider.primary_name, e)
    /\ rpc' = "fallback"
    /\ calls' = Append(calls, llmProvider.fallback_name)
    /\ UNCHANGED <<envVars, fixedVars, gcRet, emptyCheck, retrievalVars,
                   llmProvider, prompt, fallbackError, completion, ragResult>>

\* generate_completion: the fallback answered: return result
FallbackReturns ==
    /\ rpc = "fallback"
    /\ completion' = CompletionText(ProviderText(llmProvider.fallback_name))
    /\ rpc' = "gen_done"
    /\ UNCHANGED <<envVars, fixedVars, gcRet, calls, emptyCheck, retrievalVars,
                   llmProvider, prompt, primaryError, fallbackError, ragResult>>

\* generate_completion: the fallback raised too: raise one error
FallbackRaises ==
    /\ rpc = "fallback"
    /\ \E e \in ProviderErrors :
         fallbackError' = ErrorOf(llmProvider.fallback_name, e)
    /\ completion' = CompletionError(BothFailedMessage(primaryError, fallbackError'))
    /\ rpc' = "gen_done"
    /\ UNCHANGED <<envVars, fixedVars, gcRet, calls, emptyCheck, retrievalVars,
                   llmProvider, prompt, primaryError, ragResult>>

\* generate_completion catching the cancellation of the primary's call as a
\* failure of the primary: the fallback is called after the deadline
GenerationDeadlineStartsFallback ==
    /\ rpc \in {"primary", "fallback"}
    /\ completion' = CompletionCancelled
    /\ IF rpc = "primary"
       THEN /\ primaryError' = ErrorOf(llmProvider.primary_name, "CancelledError")
            /\ rpc' = "fallback"
            /\ calls' = Append(calls, llmProvider.fallback_name)
       ELSE /\ rpc' = "gen_done"
            /\ UNCHANGED <<calls, primaryError>>
    /\ UNCHANGED <<envVars, fixedVars, gcRet, emptyCheck, retrievalVars,
                   llmProvider, prompt, fallbackError, ragResult>>

\* asyncio.wait_for: the 30 s deadline expires while a provider's call is
\* awaited; the call is cancelled (CancelledError is no Exception, so no
\* handler of generate_completion runs) and TimeoutError is raised
GenerationDeadline ==
    /\ rpc \in {"primary", "fallback"}
    /\ completion' = CompletionCancelled
    /\ rpc' = "gen_done"
    /\ UNCHANGED <<envVars, fixedVars, gcRet, calls, emptyCheck, retrievalVars,
                   llmProvider, prompt, primaryError, fallbackError, ragResult>>

\* generate_answer without the except asyncio.TimeoutError clause
GenerateAnswerReturnRaisesTimeout ==
    /\ rpc = "gen_done"
    /\ Finish(CASE completion.kind = "text" -> Returned(completion.text, contexts)
                [] completion.kind = "cancelled" -> Raised(<<Lit("TimeoutError")>>)
                [] OTHER -> Raised(completion.error))
    /\ UNCHANGED <<envVars, fixedVars, gcRet, emptyCheck, retrievalVars,
                   generationVars>>

\* generate_answer's try/except around wait_for, then rag_answer's return
GenerateAnswerReturn ==
    /\ rpc = "gen_done"
    /\ Finish(CASE completion.kind = "text" -> Returned(completion.text, contexts)
                [] completion.kind = "cancelled" -> Returned(GenerationTimeoutMsg, contexts)
                [] OTHER -> Raised(completion.error))
    /\ UNCHANGED <<envVars, fixedVars, gcRet, emptyCheck, retrievalVars,
                   generationVars>>

\* the engine's index is deleted by another client of the engine
EngineIndexDeleted ==
    /\ rpc \notin {"start", "done"}
    /\ indexExists
    /\ indexExists' = FALSE
    /\ esIndex' = {}
    /\ UNCHANGED <<esInstance, ragVars>>

\* no concurrent get_client callers
ClientIdle ==
    /\ cpc = <<>>
    /\ lockHolder = 0
    /\ handlesMade = 0
    /\ got = <<>>
    /\ indexCalls = <<>>

\* no text being normalized
TextIdle ==
    /\ textIn = <<>>
    /\ tpc = "idle"
    /\ normalized = <<>>
    /\ renormalized = <<>>

\* no health request
HealthIdle ==
    /\ clusterStatus = "green"
    /\ hpc = "idle"
    /\ cluster_health = "none"
    /\ health_info = [status |-> "none", message |-> ""]
    /\ healthResponse = [kind |-> "none"]

\* no run_ocrmypdf call apart from the upload pipeline's
OcrIdle ==
    /\ opc = <<>>
    /\ ocrTmp = <<>>
    /\ ocrOutcome = <<>>
    /\ ocrLog = <<>>

\* no ESClient.close() call: the application is not shutting down
CloseIdle ==
    /\ clpc = "idle"
    /\ closingHandle = 0
    /\ closedHandles = {}

\* no operation other than the one a specification is about
SideIdle == ClientIdle /\ TextIdle /\ HealthIdle /\ OcrIdle /\ CloseIdle

\* no upload in progress
UploadIdle ==
    /\ files = <<>>
    /\ upc = "idle"
    /\ failed_files = <<>>
    /\ valid_files = <<>>
    /\ response = [kind |-> "none"]
    /\ uploadNo = 1
    /\ unitPc = <<>>
    /\ tmpCopy = <<>>
    /\ unitChunks = <<>>
    /\ unitCalls = <<>>
    /\ stageFailure = <<>>
    /\ pdOutcome = <<>>
    /\ unitResult = <<>>
    /\ insertOutcome = <<>>
    /\ sidecar = <<>>
    /\ extracted = <<>>

InitRag ==
    /\ UploadIdle
    /\ SideIdle
    /\ esInstance \in BOOLEAN
    /\ indexExists \in BOOLEAN
    /\ esIndex \in IF indexExists THEN {SeedIndex(n) : n \in 0..MaxDocs} ELSE {{}}
    /\ primarySetting \in ProviderSettings
    /\ question \in Questions
    /\ rpc = "start"
    /\ gcRet = "ie_exists"
    /\ calls = <<>>
    /\ questionVector = <<>>
    /\ emptyCheck = "pending"
    /\ contexts = <<>>
    /\ llmProvider = FallbackLLMProvider("openai")
    /\ prompt = NoPrompt
    /\ primaryError = NoError
    /\ fallbackError = NoError
    /\ completion = NoCompletion
    /\ ragResult = NoResult

NextRag ==
    \/ RagAnswerEntry /\ UNCHANGED <<uploadVars, unitVars, sideVars>>
    \/ GetClientCached /\ UNCHANGED <<uploadVars, unitVars, sideVars>>
    \/ GetClientConstruct /\ UNCHANGED <<uploadVars, unitVars, sideVars>>
    \/ CreateIndexExistsReturns /\ UNCHANGED <<uploadVars, unitVars, sideVars>>
    \/ CreateIndexCreateReturns /\ UNCHANGED <<uploadVars, unitVars, sideVars>>
    \/ CreateIndexRaises /\ UNCHANGED <<uploadVars, unitVars, sideVars>>
    \/ IsEmptyExistsReturns /\ UNCHANGED <<uploadVars, unitVars, sideVars>>
    \/ IsEmptyCountReturns /\ UNCHANGED <<uploadVars, unitVars, sideVars>>
    \/ IsEmptyRaises /\ UNCHANGED <<uploadVars, unitVars, sideVars>>
    \/ RagAfterEmptyCheck /\ UNCHANGED <<uploadVars, unitVars, sideVars>>
    \/ RetrieveContextEntry /\ UNCHANGED <<uploadVars, unitVars, sideVars>>
    \/ EmbedReturns /\ UNCHANGED <<uploadVars, unitVars, sideVars>>
    \/ EmbedRaises /\ UNCHANGED <<uploadVars, unitVars, sideVars>>
    \/ SearchReturns /\ UNCHANGED <<uploadVars, unitVars, sideVars>>
    \/ SearchNotFound /\ UNCHANGED <<uploadVars, unitVars, sideVars>>
    \/ SearchRaises /\ UNCHANGED <<uploadVars, unitVars, sideVars>>
    \/ GenerateAnswerEntry /\ UNCHANGED <<uploadVars, unitVars, sideVars>>
    \/ PrimaryReturns /\ UNCHANGED <<uploadVars, unitVars, sideVars>>
    \/ PrimaryRaises /\ UNCHANGED <<uploadVars, unitVars, sideVars>>
    \/ FallbackReturns /\ UNCHANGED <<uploadVars, unitVars, sideVars>>
    \/ FallbackRaises /\ UNCHANGED <<uploadVars, unitVars, sideVars>>
    \/ GenerationDeadline /\ UNCHANGED <<uploadVars, unitVars, sideVars>>
    \/ GenerateAnswerReturn /\ UNCHANGED <<uploadVars, unitVars, sideVars>>
    \/ EngineIndexDeleted /\ UNCHANGED <<uploadVars, unitVars, sideVars>>

SpecRag == InitRag /\ [][NextRag]_vars

\* ------------------------------------------------------------ text helpers
\* str.lower(), on the letters file names are written with
LowerChar(c) ==
    CASE c = "P" -> "p" [] c = "D" -> "d" [] c = "F" -> "f" [] OTHER -> c
Lower(str) == [i \in 1..Len(str) |-> LowerChar(str[i])]

\* str.endswith(suffix)
EndsWith(str, suffix) ==
    /\ Len(str) >= Len(suffix)
    /\ SubSeq(str, Len(str) - Len(suffix) + 1, Len(str)) = suffix

\* text.replace("-\n", "")
RECURSIVE RemoveHyphenBreaks(_)
RemoveHyphenBreaks(t) ==
    IF Len(t) < 2 THEN t
    ELSE IF t[1] = "-" /\ t[2] = "\n" THEN RemoveHyphenBreaks(SubSeq(t, 3, Len(t)))
    ELSE <<t[1]>> \o RemoveHyphenBreaks(Tail(t))

\* re.sub(r"\n{2,}", "\n", text)
RECURSIVE CollapseNewlines(_)
CollapseNewlines(t) ==
    IF Len(t) < 2 THEN t
    ELSE IF t[1] = "\n" /\ t[2] = "\n" THEN CollapseNewlines(Tail(t))
    ELSE <<t[1]>> \o CollapseNewlines(Tail(t))

\* re.sub(r"[ \t]+", " ", text)
IsBlank(c) == c \in {" ", "\t"}
RECURSIVE CollapseBlanks(_)
CollapseBlanks(t) ==
    IF t = <<>> THEN t
    ELSE IF IsBlank(t[1])
         THEN IF Len(t) >= 2 /\ IsBlank(t[2])
              THEN CollapseBlanks(Tail(t))
              ELSE <<" ">> \o CollapseBlanks(Tail(t))
         ELSE <<t[1]>> \o CollapseBlanks(Tail(t))

\* normalize_text
NormalizeText(text) ==
    Strip(CollapseBlanks(CollapseNewlines(RemoveHyphenBreaks(text))))

\* ------------------------------------------------------ the upload pipeline
\* the names a file at position n of an upload may have: a PDF (the
\* extension in capitals at even positions) or a text file
Stem(n) == IF n = 1 THEN "a" ELSE IF n = 2 THEN "b" ELSE IF n = 3 THEN "c" ELSE "d"
PdfName(n) == IF n % 2 = 1 THEN <<Stem(n), ".", "p", "d", "f">>
                           ELSE <<Stem(n), ".", "P", "D", "F">>
TxtName(n) == <<Stem(n), ".", "t", "x", "t">>
NamesUpTo(n) == {PdfName(k) : k \in 1..n} \cup {TxtName(k) : k \in 1..n}
Uploads ==
    UNION { {fs \in [1..n -> NamesUpTo(n)] :
                \A k \in 1..n : fs[k] \in {PdfName(k), TxtName(k)}} : n \in 0..MaxFiles }

\* what extract_text_from_pdf returns when the first page has text
ExtractedTexts == { <<" ">>, <<"a">>, <<"a", "-", "\n", "b">> }
\* what the sidecar file of ocrmypdf holds
OcrTexts == { <<>>, <<" ", "\n">>, <<"a", " ", " ", "b">> }

\* len(splitter.split_documents([doc])): no chunk of an empty text; the
\* characters stand for a text of any length, so for any number of chunks
ChunkCounts(normalized_text) ==
    IF normalized_text = <<>> THEN {0} ELSE 1..MaxChunks

\* file.filename.lower().endswith(".pdf")
IsPdf(filename) == EndsWith(Lower(filename), <<".", "p", "d", "f">>)

\* an entry of failed_files: f"{file.filename} ({reason})"
Failed(filename, reason) == [filename |-> filename, reason |-> reason]

\* the loop "First validate all files" over files[n..]
RECURSIVE RejectedFiles(_, _)
RejectedFiles(fs, n) ==
    IF n > Len(fs) THEN <<>>
    ELSE (IF IsPdf(fs[n]) THEN <<>> ELSE <<Failed(fs[n], "not a PDF")>>)
         \o RejectedFiles(fs, n + 1)

RECURSIVE ValidFiles(_, _)
ValidFiles(fs, n) ==
    IF n > Len(fs) THEN <<>>
    ELSE (IF IsPdf(fs[n]) THEN <<n>> ELSE <<>>) \o ValidFiles(fs, n + 1)

\* the DocumentResponse returned, or the HTTPException raised
DocumentResponse(message, docs, chunks, failed) ==
    [kind |-> "returned", message |-> message, documents_indexed |-> docs,
     total_chunks |-> chunks, failed_files |-> failed]
HTTPException400(failed) ==
    [kind |-> "raised", message |-> "No documents were processed successfully.",
     documents_indexed |-> 0, total_chunks |-> 0, failed_files |-> failed]

\* how a process_document call ended
PdPending == [kind |-> "none", docs |-> 0, chunks |-> 0]
PdReturned(docs, chunks) == [kind |-> "returned", docs |-> docs, chunks |-> chunks]
PdRaised == [kind |-> "raised", docs |-> 0, chunks |-> 0]

\* what a process_single_file unit ended with
UnitPending == [kind |-> "none", docs |-> 0, chunks |-> 0]
UnitReturned(docs, chunks) == [kind |-> "returned", docs |-> docs, chunks |-> chunks]

RECURSIVE SumOver(_, _, _)
SumOver(seq, n, field) ==
    IF n > Len(seq) THEN 0
    ELSE (IF field = "docs" THEN unitResult[seq[n]].docs ELSE unitResult[seq[n]].chunks)
         + SumOver(seq, n + 1, field)

\* upload_documents up to asyncio.gather: the empty upload, the validation
\* loop, the upload without a valid file
UploadValidate ==
    /\ upc = "start"
    /\ IF files = <<>>
       THEN /\ response' = DocumentResponse("No documents were provided.", 0, 0, <<>>)
            /\ upc' = "done"
            /\ UNCHANGED <<failed_files, valid_files>>
       ELSE /\ failed_files' = RejectedFiles(files, 1)
            /\ valid_files' = ValidFiles(files, 1)
            /\ IF valid_files' = <<>>
               THEN /\ response' = DocumentResponse("No valid PDF files were provided.",
                                                    0, 0, failed_files')
                    /\ upc' = "done"
               ELSE /\ upc' = "gather"
                    /\ UNCHANGED response
    /\ UNCHANGED <<envVars, ragVars, files, uploadNo, unitVars, sideVars>>

\* a unit for every uploaded file, the rejected ones too
UnitsOfAllFiles == 1..Len(files)

\* the units asyncio.gather runs
Units == {valid_files[n] : n \in 1..Len(valid_files)}

\* process_single_file after process_document: return its result, or the
\* inner except Exception; finally the temporary copy is unlinked
UnitEnds(i, outcome) ==
    /\ IF outcome.kind = "raised"
       THEN /\ failed_files' = Append(failed_files, Failed(files[i], "processing error"))
            /\ unitResult' = [unitResult EXCEPT ![i] = UnitReturned(0, 0)]
       ELSE /\ unitResult' = [unitResult EXCEPT ![i] =
                                 UnitReturned(outcome.docs, outcome.chunks)]
            /\ UNCHANGED failed_files
    /\ tmpCopy' = [tmpCopy EXCEPT ![i] = FALSE]
    /\ unitPc' = [unitPc EXCEPT ![i] = "done"]

\* process_document ends, with a result or raising (its local chunks is
\* gone), and process_single_file goes on with it
PdEnds(i, outcome, failure) ==
    /\ pdOutcome' = [pdOutcome EXCEPT ![i] = outcome]
    /\ stageFailure' = [stageFailure EXCEPT ![i] = failure]
    /\ unitChunks' = [unitChunks EXCEPT ![i] = 0]
    /\ UnitEnds(i, outcome)

\* process_document without its except clauses: the stage's error leaves it
PdStageFailedRaises(i, failure) == PdEnds(i, PdRaised, failure)

\* process_document's handlers of a failed stage:
\* except asyncio.TimeoutError / except Exception: return 0, 0
PdStageFailed(i, failure) == PdEnds(i, PdReturned(0, 0), failure)

\* the unit awaits the next stage's call
Await(i, stage) ==
    /\ unitPc' = [unitPc EXCEPT ![i] = stage]
    /\ unitCalls' = [unitCalls EXCEPT ![i] = Append(@, stage)]
    /\ UNCHANGED <<failed_files, tmpCopy, pdOutcome, stageFailure, unitResult>>

\* process_document from the text to the embedding call:
\* if not text, normalize_text, split_documents, if not chunks
PdAfterText(i, text) ==
    IF text = <<>>
    THEN PdStageFailed(i, "no text") /\ UNCHANGED unitCalls
    ELSE \E n \in ChunkCounts(NormalizeText(text)) :
           IF n = 0
           THEN PdStageFailed(i, "zero chunks") /\ UNCHANGED unitCalls
           ELSE /\ unitChunks' = [unitChunks EXCEPT ![i] = n]
                /\ Await(i, "embed")

\* what every step of a unit leaves alone
ExtractFrame ==
    UNCHANGED <<envVars, ragVars, files, upc, valid_files, response, uploadNo,
                insertOutcome, sidecar, sideVars>>
OcrFrame ==
    UNCHANGED <<envVars, ragVars, files, upc, valid_files, response, uploadNo,
                insertOutcome, extracted, sideVars>>
UnitFrame == OcrFrame /\ UNCHANGED sidecar

\* process_single_file: the temporary file is made, file.read() is awaited
UnitStart(i) ==
    /\ upc = "gather"
    /\ i \in Units
    /\ unitPc[i] = "pending"
    /\ tmpCopy' = [tmpCopy EXCEPT ![i] = TRUE]
    /\ unitPc' = [unitPc EXCEPT ![i] = "read"]
    /\ UNCHANGED <<failed_files, unitChunks, unitCalls, stageFailure, pdOutcome,
                   unitResult>>
    /\ UnitFrame

\* the upload is read and written to the temporary file; process_document
\* finds the file and awaits extract_text_from_pdf
UnitReadReturns(i) ==
    /\ i \in Units
    /\ unitPc[i] = "read"
    /\ IF tmpCopy[i]
       THEN Await(i, "extract") /\ UNCHANGED unitChunks
       ELSE PdStageFailed(i, "file not found") /\ UNCHANGED unitCalls
    /\ UnitFrame

\* file.read() or tmp.write() raises: the outer except Exception
UnitReadRaises(i) ==
    /\ i \in Units
    /\ unitPc[i] = "read"
    /\ failed_files' = Append(failed_files, Failed(files[i], "upload error"))
    /\ unitResult' = [unitResult EXCEPT ![i] = UnitReturned(0, 0)]
    /\ unitPc' = [unitPc EXCEPT ![i] = "done"]
    /\ UNCHANGED <<tmpCopy, unitChunks, unitCalls, stageFailure, pdOutcome>>
    /\ UnitFrame

\* extract_text_from_pdf returns the text of the pages
DocExtractReturnsText(i) ==
    /\ i \in Units
    /\ unitPc[i] = "extract"
    /\ \E text \in ExtractedTexts : PdAfterText(i, text)
    /\ extracted' = [extracted EXCEPT ![i] = "text"]
    /\ ExtractFrame

\* extract_text_from_pdf returns None: run_ocrmypdf is awaited
DocExtractReturnsNone(i) ==
    /\ i \in Units
    /\ unitPc[i] = "extract"
    /\ Await(i, "ocr")
    /\ extracted' = [extracted EXCEPT ![i] = "None"]
    /\ UNCHANGED unitChunks
    /\ ExtractFrame

\* process_document falling back to OCR when the extraction fails
DocExtractFailsRunsOcr(i) ==
    /\ i \in Units
    /\ unitPc[i] = "extract"
    /\ Await(i, "ocr")
    /\ extracted' = [extracted EXCEPT ![i] = "failed"]
    /\ UNCHANGED unitChunks
    /\ ExtractFrame

\* extract_text_from_pdf raises, or its 30 s deadline expires
DocExtractFails(i) ==
    /\ i \in Units
    /\ unitPc[i] = "extract"
    /\ \E failure \in {"extract raised", "extract timeout"} : PdStageFailed(i, failure)
    /\ extracted' = [extracted EXCEPT ![i] = "failed"]
    /\ UNCHANGED unitCalls
    /\ ExtractFrame

\* run_ocrmypdf's NamedTemporaryFile, the output PDF of ocrmypdf: made when
\* run_ocrmypdf starts, unlinked in its finally clause
OcrTmpPdf(i) == unitPc[i] = "ocr"

\* run_ocrmypdf returns the text of the sidecar file ocrmypdf wrote at
\* file_path.with_suffix(".txt")
DocOcrReturns(i) ==
    /\ i \in Units
    /\ unitPc[i] = "ocr"
    /\ \E text \in OcrTexts : PdAfterText(i, text)
    /\ sidecar' = [sidecar EXCEPT ![i] = TRUE]
    /\ OcrFrame

\* run_ocrmypdf raises, or its 120 s deadline expires; ocrmypdf had written
\* the sidecar file by then, or not
DocOcrFails(i) ==
    /\ i \in Units
    /\ unitPc[i] = "ocr"
    /\ \E failure \in {"ocr raised", "ocr timeout"} : PdStageFailed(i, failure)
    /\ \E written \in BOOLEAN : sidecar' = [sidecar EXCEPT ![i] = written]
    /\ UNCHANGED unitCalls
    /\ OcrFrame

\* aembed_documents returns the vectors: insert_chunks is awaited (the
\* handle is cached since lifespan, so get_es_client returns at once)
DocEmbedReturns(i) ==
    /\ i \in Units
    /\ unitPc[i] = "embed"
    /\ Await(i, "upsert")
    /\ UNCHANGED unitChunks
    /\ UnitFrame

\* aembed_documents raises, or its 60 s deadline expires
DocEmbedFails(i) ==
    /\ i \in Units
    /\ unitPc[i] = "embed"
    /\ \E failure \in {"embed raised", "embed timeout"} : PdStageFailed(i, failure)
    /\ UNCHANGED unitCalls
    /\ UnitFrame

\* an identifier computed from the chunk, the same at every upload
IdOfChunk(upload, i, k) == <<1, i, k>>

\* str(uuid4()): a value no other call yields, named by the call that drew
\* it (the upload, the unit, the chunk)
Uuid4(upload, i, k) == <<upload, i, k>>

\* the records insert_chunks builds of the unit's chunks numbered in ks
NewRecords(i, ks) == {Record(Uuid4(uploadNo, i, k), TmpName(i), k) : k \in ks}

\* what every resolution of insert_chunks leaves alone
UpsertFrame ==
    UNCHANGED <<esInstance, indexExists, ragVars, files, upc, valid_files,
                response, uploadNo, unitCalls, sidecar, extracted, sideVars>>

\* how an insert_chunks call ended: with async_bulk's report on n actions
\* (success, n_failed), or with an error and no report
InsertPending == [kind |-> "none", n |-> 0, success |-> 0, n_failed |-> 0]
InsertAborted(kind) == [kind |-> kind, n |-> 0, success |-> 0, n_failed |-> 0]

\* insert_chunks taking every report for a success
BulkFailedIgnored(n_failed) == FALSE

\* insert_chunks: if n_failed > 0: raise Exception
BulkFailed(n_failed) == n_failed > 0

\* insert_chunks after async_bulk(raise_on_error=False) returned
\* (success, failed) for n actions of which those numbered in ks were indexed
InsertChunksEnds(n, ks) ==
    LET success == Cardinality(ks)
        n_failed == n - Cardinality(ks)
    IN [kind |-> IF BulkFailed(n_failed) THEN "raised" ELSE "returned",
        n |-> n, success |-> success, n_failed |-> n_failed]

\* what process_document does with an error of insert_chunks:
\* except asyncio.TimeoutError / except Exception: return 0, 0
PdUpsertFailed(i, failure) == PdStageFailed(i, failure)

\* process_document counting the document, not its chunks
PdIndexedCountsDocument(n) == PdReturned(1, 1)

\* process_document after insert_chunks returned: return 1, len(chunks)
PdIndexed(n) == PdReturned(1, n)

\* async_bulk returns its report; insert_chunks returns, and process_document
\* returns 1, len(chunks), or insert_chunks raises
DocBulkReturns(i) ==
    /\ i \in Units
    /\ unitPc[i] = "upsert"
    /\ \E ks \in SUBSET (1..unitChunks[i]) :
         /\ esIndex' = esIndex \cup NewRecords(i, ks)
         /\ insertOutcome' = [insertOutcome EXCEPT ![i] =
                                 InsertChunksEnds(unitChunks[i], ks)]
    /\ IF insertOutcome'[i].kind = "raised"
       THEN PdUpsertFailed(i, "upsert failed records")
       ELSE PdEnds(i, PdIndexed(unitChunks[i]), "none")
    /\ UpsertFrame

\* the chunks the engine holds when async_bulk gave no report: the engine
\* raised, or the 60 s deadline expired, with the request lost or completed
IndexedOnFailure(n) == {{}, 1..n}

\* insert_chunks fails without a report of async_bulk
DocUpsertFails(i) ==
    /\ i \in Units
    /\ unitPc[i] = "upsert"
    /\ \E failure \in {"upsert raised", "upsert timeout"} :
         /\ \E ks \in IndexedOnFailure(unitChunks[i]) :
              esIndex' = esIndex \cup NewRecords(i, ks)
         /\ insertOutcome' = [insertOutcome EXCEPT ![i] =
                                 InsertAborted(failure)]
         /\ PdUpsertFailed(i, failure)
    /\ UpsertFrame

\* a join that is over with the first unit that returns
GatherReadyFirstCompleted == \E i \in Units : unitPc[i] = "done"

\* asyncio.gather(*units) is over: every unit has returned
GatherReady == \A i \in Units : unitPc[i] = "done"

\* upload_documents after asyncio.gather: the totals, then the
\* HTTPException or the DocumentResponse
UploadAggregate ==
    /\ upc = "gather"
    /\ GatherReady
    /\ LET total_docs == SumOver(valid_files, 1, "docs")
           total_chunks == SumOver(valid_files, 1, "chunks")
       IN response' =
            IF total_docs = 0 /\ failed_files # <<>>
            THEN HTTPException400(failed_files)
            ELSE DocumentResponse(IF failed_files = <<>>
                                  THEN "Documents processed successfully"
                                  ELSE "Some documents failed to process",
                                  total_docs, total_chunks, failed_files)
    /\ upc' = "done"
    /\ UNCHANGED <<envVars, ragVars, files, failed_files, valid_files, uploadNo,
                   unitVars, sideVars>>

\* no question being answered
RagIdle ==
    /\ primarySetting = "openai"
    /\ question = <<>>
    /\ rpc = "idle"
    /\ gcRet = "ie_exists"
    /\ calls = <<>>
    /\ questionVector = <<>>
    /\ emptyCheck = "pending"
    /\ contexts = <<>>
    /\ llmProvider = FallbackLLMProvider("openai")
    /\ prompt = NoPrompt
    /\ primaryError = NoError
    /\ fallbackError = NoError
    /\ completion = NoCompletion
    /\ ragResult = NoResult

\* an upload arrives at the running application: lifespan has built the
\* handle and made sure of the index
InitUpload ==
    /\ RagIdle
    /\ SideIdle
    /\ esInstance = TRUE
    /\ indexExists = TRUE
    /\ esIndex = {}
    /\ files \in Uploads
    /\ upc = "start"
    /\ failed_files = <<>>
    /\ valid_files = <<>>
    /\ response = [kind |-> "none"]
    /\ uploadNo = 1
    /\ unitPc = [i \in 1..Len(files) |-> "pending"]
    /\ tmpCopy = [i \in 1..Len(files) |-> FALSE]
    /\ unitChunks = [i \in 1..Len(files) |-> 0]
    /\ unitCalls = [i \in 1..Len(files) |-> <<>>]
    /\ stageFailure = [i \in 1..Len(files) |-> "none"]
    /\ pdOutcome = [i \in 1..Len(files) |-> PdPending]
    /\ unitResult = [i \in 1..Len(files) |-> UnitPending]
    /\ insertOutcome = [i \in 1..Len(files) |-> InsertPending]
    /\ sidecar = [i \in 1..Len(files) |-> FALSE]
    /\ extracted = [i \in 1..Len(files) |-> "pending"]

\* the records an earlier upload of the file now at position 1 left in the
\* index: the same chunks under the identifiers drawn then
PriorRecords == {Record(Uuid4(1, 1, k), TmpName(1), k) : k \in 1..MaxChunks}

\* an upload arrives after that earlier upload
InitReingest ==
    /\ RagIdle
    /\ SideIdle
    /\ esInstance = TRUE
    /\ indexExists = TRUE
    /\ esIndex = PriorRecords
    /\ files \in Uploads
    /\ upc = "start"
    /\ failed_files = <<>>
    /\ valid_files = <<>>
    /\ response = [kind |-> "none"]
    /\ uploadNo = 2
    /\ unitPc = [i \in 1..Len(files) |-> "pending"]
    /\ tmpCopy = [i \in 1..Len(files) |-> FALSE]
    /\ unitChunks = [i \in 1..Len(files) |-> 0]
    /\ unitCalls = [i \in 1..Len(files) |-> <<>>]
    /\ stageFailure = [i \in 1..Len(files) |-> "none"]
    /\ pdOutcome = [i \in 1..Len(files) |-> PdPending]
    /\ unitResult = [i \in 1..Len(files) |-> UnitPending]
    /\ insertOutcome = [i \in 1..Len(files) |-> InsertPending]
    /\ sidecar = [i \in 1..Len(files) |-> FALSE]
    /\ extracted = [i \in 1..Len(files) |-> "pending"]

NextUpload ==
    \/ UploadValidate
    \/ \E i \in 1..Len(files) : UnitStart(i)
    \/ \E i \in 1..Len(files) : UnitReadReturns(i)
    \/ \E i \in 1..Len(files) : UnitReadRaises(i)
    \/ \E i \in 1..Len(files) : DocExtractReturnsText(i)
    \/ \E i \in 1..Len(files) : DocExtractReturnsNone(i)
    \/ \E i \in 1..Len(files) : DocExtractFails(i)
    \/ \E i \in 1..Len(files) : DocOcrReturns(i)
    \/ \E i \in 1..Len(files) : DocOcrFails(i)
    \/ \E i \in 1..Len(files) : DocEmbedReturns(i)
    \/ \E i \in 1..Len(files) : DocEmbedFails(i)
    \/ \E i \in 1..Len(files) : DocBulkReturns(i)
    \/ \E i \in 1..Len(files) : DocUpsertFails(i)
    \/ UploadAggregate

SpecUpload == InitUpload /\ [][NextUpload]_vars

SpecReingest == InitReingest /\ [][NextUpload]_vars

\* ------------------------------------------- concurrent get_client callers
Callers == 1..MaxCallers

\* what a get_client call gave its caller
NoHandle == [kind |-> "none", handle |-> 0]
Handle(n) == [kind |-> "handle", handle |-> n]
HandleRaised == [kind |-> "raised", handle |-> 0]
HandleNull == [kind |-> "null", handle |-> 0]

\* return cls._instance: the caller has the object constructed last, or
\* None when close() has reset cls._instance
ClientReturns(c) ==
    /\ got' = [got EXCEPT ![c] = IF esInstance THEN Handle(handlesMade) ELSE HandleNull]
    /\ cpc' = [cpc EXCEPT ![c] = "done"]

\* get_client: if not cls._instance; with a handle return it, without one
\* go for the lock
ClientGetEntry(c) ==
    /\ cpc[c] = "start"
    /\ IF esInstance
       THEN ClientReturns(c)
       ELSE cpc' = [cpc EXCEPT ![c] = "lock"] /\ UNCHANGED got
    /\ UNCHANGED <<envVars, lockHolder, handlesMade, indexCalls>>

\* the lock taken without looking at cls._instance again
InstanceNotCheckedUnderLock == TRUE

\* the second check, made with the lock held: if not cls._instance
NoInstanceUnderLock == ~esInstance

\* async with cls._lock: the lock is free and the caller takes it; without
\* a handle it constructs AsyncElasticsearch, assigns cls._instance and
\* awaits create_index (the first call is indices.exists); with a handle it
\* releases the lock and returns
ClientAcquire(c) ==
    /\ cpc[c] = "lock"
    /\ lockHolder = 0
    /\ IF NoInstanceUnderLock
       THEN /\ esInstance' = TRUE
            /\ handlesMade' = handlesMade + 1
            /\ lockHolder' = c
            /\ cpc' = [cpc EXCEPT ![c] = "exists"]
            /\ indexCalls' = Append(indexCalls, "exists")
            /\ UNCHANGED got
       ELSE /\ ClientReturns(c)
            /\ UNCHANGED <<esInstance, lockHolder, handlesMade, indexCalls>>
    /\ UNCHANGED <<indexExists, esIndex>>

\* create_index: indices.exists answered; the index is there (the lock is
\* released, the handle returned) or indices.create is awaited
ClientExistsReturns(c) ==
    /\ cpc[c] = "exists"
    /\ IF indexExists
       THEN /\ ClientReturns(c)
            /\ lockHolder' = 0
            /\ UNCHANGED indexCalls
       ELSE /\ cpc' = [cpc EXCEPT ![c] = "create"]
            /\ indexCalls' = Append(indexCalls, "create")
            /\ UNCHANGED <<got, lockHolder>>
    /\ UNCHANGED <<envVars, handlesMade>>

\* create_index: indices.create answered
ClientCreateReturns(c) ==
    /\ cpc[c] = "create"
    /\ indexExists' = TRUE
    /\ ClientReturns(c)
    /\ lockHolder' = 0
    /\ UNCHANGED <<esInstance, esIndex, handlesMade, indexCalls>>

\* create_index raises: the lock is released and get_client raises, with
\* cls._instance left assigned
ClientCreateIndexRaises(c) ==
    /\ cpc[c] \in {"exists", "create"}
    /\ got' = [got EXCEPT ![c] = HandleRaised]
    /\ cpc' = [cpc EXCEPT ![c] = "done"]
    /\ lockHolder' = 0
    /\ UNCHANGED <<envVars, handlesMade, indexCalls>>

\* the application has started no handle yet; the callers are about to call
InitClient ==
    /\ RagIdle
    /\ UploadIdle
    /\ TextIdle
    /\ HealthIdle
    /\ OcrIdle
    /\ CloseIdle
    /\ esInstance = FALSE
    /\ indexExists \in BOOLEAN
    /\ esIndex = {}
    /\ cpc = [c \in Callers |-> "start"]
    /\ lockHolder = 0
    /\ handlesMade = 0
    /\ got = [c \in Callers |-> NoHandle]
    /\ indexCalls = <<>>

ClientFrame ==
    UNCHANGED <<ragVars, uploadVars, unitVars, textVars, healthVars, ocrVars,
                closeVars>>

NextClient ==
    \/ \E c \in Callers : ClientGetEntry(c) /\ ClientFrame
    \/ \E c \in Callers : ClientAcquire(c) /\ ClientFrame
    \/ \E c \in Callers : ClientExistsReturns(c) /\ ClientFrame
    \/ \E c \in Callers : ClientCreateReturns(c) /\ ClientFrame
    \/ \E c \in Callers : ClientCreateIndexRaises(c) /\ ClientFrame

SpecClient == InitClient /\ [][NextClient]_vars

\* ------------------------------- ESClient.close() among get_client callers
\* close: if cls._instance: await cls._instance.close()
CloseEntry ==
    /\ clpc = "start"
    /\ IF esInstance
       THEN clpc' = "closing" /\ closingHandle' = handlesMade
       ELSE clpc' = "done" /\ UNCHANGED closingHandle
    /\ UNCHANGED <<envVars, clientVars, closedHandles>>

\* the handle's close() returns: cls._instance = None
CloseReturns ==
    /\ clpc = "closing"
    /\ closedHandles' = closedHandles \cup {closingHandle}
    /\ closingHandle' = 0
    /\ esInstance' = FALSE
    /\ clpc' = "done"
    /\ UNCHANGED <<indexExists, esIndex, clientVars>>

\* the handle's close() raises: cls._instance stays assigned
CloseRaises ==
    /\ clpc = "closing"
    /\ closingHandle' = 0
    /\ clpc' = "done"
    /\ UNCHANGED <<envVars, clientVars, closedHandles>>

\* the callers of get_client and the one close() call of lifespan
InitClientClose ==
    /\ RagIdle
    /\ UploadIdle
    /\ TextIdle
    /\ HealthIdle
    /\ OcrIdle
    /\ esInstance = FALSE
    /\ indexExists \in BOOLEAN
    /\ esIndex = {}
    /\ cpc = [c \in Callers |-> "start"]
    /\ lockHolder = 0
    /\ handlesMade = 0
    /\ got = [c \in Callers |-> NoHandle]
    /\ indexCalls = <<>>
    /\ clpc = "start"
    /\ closingHandle = 0
    /\ closedHandles = {}

CloseFrame ==
    UNCHANGED <<ragVars, uploadVars, unitVars, textVars, healthVars, ocrVars>>

NextClientClose ==
    \/ NextClient
    \/ CloseEntry /\ CloseFrame
    \/ CloseReturns /\ CloseFrame
    \/ CloseRaises /\ CloseFrame

SpecClientClose == InitClientClose /\ [][NextClientClose]_vars

\* ------------------------------------------------------- normalize_text
\* the characters normalize_text tells apart, and a letter
Chars == {"-", "\n", " ", "\t", "a"}
Texts == UNION {[1..n -> Chars] : n \in 0..MaxLen}

\* normalize_text(text)
NormalizeCall ==
    /\ tpc = "start"
    /\ normalized' = NormalizeText(textIn)
    /\ tpc' = "once"
    /\ UNCHANGED <<textIn, renormalized>>

\* normalize_text of the text normalize_text returned
NormalizeAgain ==
    /\ tpc = "once"
    /\ renormalized' = NormalizeText(normalized)
    /\ tpc' = "twice"
    /\ UNCHANGED <<textIn, normalized>>

InitNormalize ==
    /\ RagIdle
    /\ UploadIdle
    /\ ClientIdle
    /\ HealthIdle
    /\ OcrIdle
    /\ CloseIdle
    /\ esInstance = FALSE
    /\ indexExists = FALSE
    /\ esIndex = {}
    /\ textIn \in Texts
    /\ tpc = "start"
    /\ normalized = <<>>
    /\ renormalized = <<>>

TextFrame ==
    UNCHANGED <<envVars, ragVars, uploadVars, unitVars, clientVars, healthVars,
                ocrVars, closeVars>>

NextNormalize ==
    \/ NormalizeCall /\ TextFrame
    \/ NormalizeAgain /\ TextFrame

SpecNormalize == InitNormalize /\ [][NextNormalize]_vars

\* ------------------------------------------------------- the health check
ClusterStatuses == {"green", "yellow", "red"}

\* the dictionaries check_health returns (the timestamp left out)
HealthInfo(status, message) == [status |-> status, message |-> message]
IndexMissingInfo == HealthInfo("red", "Index does not exist")
UnavailableInfo == HealthInfo("red", "Service is unavailable")

\* "Service is healthy" if cluster_health["status"] in ["green", "yellow"]
\* else "Service is degraded"
HealthMessage(status) ==
    IF status \in {"green", "yellow"} THEN "Service is healthy" ELSE "Service is degraded"

\* health_check calls check_health, which calls get_client: with a handle
\* cluster.health is awaited, without one the handle is constructed and
\* create_index awaits indices.exists
HealthEntry ==
    /\ hpc = "start"
    /\ IF esInstance
       THEN hpc' = "cluster" /\ UNCHANGED esInstance
       ELSE hpc' = "gc_exists" /\ esInstance' = TRUE
    /\ UNCHANGED <<indexExists, esIndex, clusterStatus, cluster_health, health_info,
                   healthResponse>>

\* create_index: indices.exists answered
HealthCreateIndexExistsReturns ==
    /\ hpc = "gc_exists"
    /\ hpc' = IF indexExists THEN "cluster" ELSE "gc_create"
    /\ UNCHANGED <<envVars, clusterStatus, cluster_health, health_info, healthResponse>>

\* create_index: indices.create answered
HealthCreateIndexCreateReturns ==
    /\ hpc = "gc_create"
    /\ indexExists' = TRUE
    /\ hpc' = "cluster"
    /\ UNCHANGED <<esInstance, esIndex, clusterStatus, cluster_health, health_info,
                   healthResponse>>

\* client.cluster.health() answered; indices.exists is awaited
HealthClusterReturns ==
    /\ hpc = "cluster"
    /\ cluster_health' = clusterStatus
    /\ hpc' = "exists"
    /\ UNCHANGED <<envVars, clusterStatus, health_info, healthResponse>>

\* indices.exists answered: the red answer for a missing index, or the
\* cluster's status with its message
HealthExistsReturns ==
    /\ hpc = "exists"
    /\ health_info' = IF ~indexExists
                      THEN IndexMissingInfo
                      ELSE HealthInfo(cluster_health, HealthMessage(cluster_health))
    /\ hpc' = "checked"
    /\ UNCHANGED <<envVars, clusterStatus, cluster_health, healthResponse>>

\* a call of check_health raises, get_client's included: except Exception
HealthCheckRaises ==
    /\ hpc \in {"gc_exists", "gc_create", "cluster", "exists"}
    /\ health_info' = UnavailableInfo
    /\ hpc' = "checked"
    /\ UNCHANGED <<envVars, clusterStatus, cluster_health, healthResponse>>

\* health_check: HTTPException(503) for a red status, else the response
HealthCheckResponds ==
    /\ hpc = "checked"
    /\ healthResponse' = [kind |-> IF health_info.status = "red" THEN "raised 503"
                                                                 ELSE "returned",
                          info |-> health_info]
    /\ hpc' = "done"
    /\ UNCHANGED <<envVars, clusterStatus, cluster_health, health_info>>

\* the engine's cluster status changes while the request is served
HealthClusterChanges ==
    /\ hpc \notin {"start", "done"}
    /\ \E status \in ClusterStatuses \ {clusterStatus} : clusterStatus' = status
    /\ UNCHANGED <<envVars, hpc, cluster_health, health_info, healthResponse>>

\* the index is deleted by another client of the engine
HealthIndexDeleted ==
    /\ hpc \notin {"start", "done"}
    /\ indexExists
    /\ indexExists' = FALSE
    /\ esIndex' = {}
    /\ UNCHANGED <<esInstance, healthVars>>

InitHealth ==
    /\ RagIdle
    /\ UploadIdle
    /\ ClientIdle
    /\ TextIdle
    /\ OcrIdle
    /\ CloseIdle
    /\ esInstance \in BOOLEAN
    /\ indexExists \in BOOLEAN
    /\ esIndex \in IF indexExists THEN {SeedIndex(n) : n \in 0..MaxDocs} ELSE {{}}
    /\ clusterStatus \in ClusterStatuses
    /\ hpc = "start"
    /\ cluster_health = "none"
    /\ health_info = [status |-> "none", message |-> ""]
    /\ healthResponse = [kind |-> "none"]

HealthFrame ==
    UNCHANGED <<ragVars, uploadVars, unitVars, clientVars, textVars, ocrVars,
                closeVars>>

NextHealth ==
    \/ HealthEntry /\ HealthFrame
    \/ HealthCreateIndexExistsReturns /\ HealthFrame
    \/ HealthCreateIndexCreateReturns /\ HealthFrame
    \/ HealthClusterReturns /\ HealthFrame
    \/ HealthExistsReturns /\ HealthFrame
    \/ HealthCheckRaises /\ HealthFrame
    \/ HealthCheckResponds /\ HealthFrame
    \/ HealthClusterChanges /\ HealthFrame
    \/ HealthIndexDeleted /\ HealthFrame

SpecHealth == InitHealth /\ [][NextHealth]_vars

\* ------------------------------------------------------- run_ocrmypdf
\* the run_ocrmypdf calls in progress, one per unit that fell back to OCR
OcrRuns == 1..MaxFiles

\* process.returncode of ocrmypdf: 0, or one of its error codes
ReturnCodes == {0, 1, 2}

\* how a run_ocrmypdf call ends
OcrPending == [kind |-> "none", value |-> <<>>]
OcrReturned(text) == [kind |-> "returned", value |-> text]
OcrRaised(e) == [kind |-> "raised", value |-> <<e>>]
OcrCancelledError == [kind |-> "cancelled", value |-> <<>>]

\* with NamedTemporaryFile(suffix='.pdf', delete=False) as temp_pdf: the
\* file is made; create_subprocess_exec is awaited
OcrEntry(r) ==
    /\ opc[r] = "start"
    /\ ocrTmp' = [ocrTmp EXCEPT ![r] = TRUE]
    /\ opc' = [opc EXCEPT ![r] = "spawn"]
    /\ UNCHANGED <<ocrOutcome, ocrLog>>

\* control leaves the try body for the finally clause with a return value
\* or an exception on its way out
OcrLeaves(r, outcome) ==
    /\ ocrOutcome' = [ocrOutcome EXCEPT ![r] = outcome]
    /\ opc' = [opc EXCEPT ![r] = "finally"]
    /\ UNCHANGED ocrTmp

\* except Exception as e: logger.error(...); raise
OcrExcept(r, e) ==
    /\ ocrLog' = [ocrLog EXCEPT ![r] = Append(@, "error")]
    /\ OcrLeaves(r, OcrRaised(e))

\* create_subprocess_exec returns the process: communicate() is awaited
OcrSpawnReturns(r) ==
    /\ opc[r] = "spawn"
    /\ opc' = [opc EXCEPT ![r] = "communicate"]
    /\ UNCHANGED <<ocrTmp, ocrOutcome, ocrLog>>

\* create_subprocess_exec raises (no ocrmypdf executable)
OcrSpawnRaises(r) ==
    /\ opc[r] = "spawn"
    /\ OcrExcept(r, "FileNotFoundError")

\* communicate() returns: a non-zero return code raises
\* CalledProcessError, else the sidecar file is opened and read
OcrCommunicateReturns(r) ==
    /\ opc[r] = "communicate"
    /\ \E returncode \in ReturnCodes :
         IF returncode # 0
         THEN OcrExcept(r, "CalledProcessError")
         ELSE /\ opc' = [opc EXCEPT ![r] = "read"]
              /\ UNCHANGED <<ocrTmp, ocrOutcome, ocrLog>>

\* return await f.read()
OcrReadReturns(r) ==
    /\ opc[r] = "read"
    /\ \E text \in OcrTexts : OcrLeaves(r, OcrReturned(text))
    /\ UNCHANGED ocrLog

\* aiofiles.open or f.read() raises
OcrReadRaises(r) ==
    /\ opc[r] = "read"
    /\ OcrExcept(r, "OSError")

\* the caller's 120 s deadline expires: the await in progress raises
\* CancelledError, which no except Exception clause handles
OcrCancelled(r) ==
    /\ opc[r] \in {"spawn", "communicate", "read"}
    /\ OcrLeaves(r, OcrCancelledError)
    /\ UNCHANGED ocrLog

\* finally: Path(temp_pdf.name).unlink(missing_ok=True)
OcrUnlinkReturns(r) ==
    /\ opc[r] = "finally"
    /\ ocrTmp' = [ocrTmp EXCEPT ![r] = FALSE]
    /\ opc' = [opc EXCEPT ![r] = "done"]
    /\ UNCHANGED <<ocrOutcome, ocrLog>>

\* a finally clause without its try: the error of unlink leaves run_ocrmypdf
OcrUnlinkFailsRaises(r) ==
    /\ opc[r] = "finally"
    /\ ocrOutcome' = [ocrOutcome EXCEPT ![r] = OcrRaised("PermissionError")]
    /\ opc' = [opc EXCEPT ![r] = "done"]
    /\ UNCHANGED <<ocrTmp, ocrLog>>

\* finally: unlink raises: except Exception as e: logger.warning(...)
OcrUnlinkFails(r) ==
    /\ opc[r] = "finally"
    /\ ocrLog' = [ocrLog EXCEPT ![r] = Append(@, "warning")]
    /\ opc' = [opc EXCEPT ![r] = "done"]
    /\ UNCHANGED <<ocrTmp, ocrOutcome>>

\* the units that fell back to OCR are about to call run_ocrmypdf
InitOcr ==
    /\ RagIdle
    /\ UploadIdle
    /\ ClientIdle
    /\ TextIdle
    /\ HealthIdle
    /\ CloseIdle
    /\ esInstance = TRUE
    /\ indexExists = TRUE
    /\ esIndex = {}
    /\ opc = [r \in OcrRuns |-> "start"]
    /\ ocrTmp = [r \in OcrRuns |-> FALSE]
    /\ ocrOutcome = [r \in OcrRuns |-> OcrPending]
    /\ ocrLog = [r \in OcrRuns |-> <<>>]

OcrRunFrame ==
    UNCHANGED <<envVars, ragVars, uploadVars, unitVars, clientVars, textVars,
                healthVars, closeVars>>

NextOcr ==
    \/ \E r \in OcrRuns : OcrEntry(r) /\ OcrRunFrame
    \/ \E r \in OcrRuns : OcrSpawnReturns(r) /\ OcrRunFrame
    \/ \E r \in OcrRuns : OcrSpawnRaises(r) /\ OcrRunFrame
    \/ \E r \in OcrRuns : OcrCommunicateReturns(r) /\ OcrRunFrame
    \/ \E r \in OcrRuns : OcrReadReturns(r) /\ OcrRunFrame
    \/ \E r \in OcrRuns : OcrReadRaises(r) /\ OcrRunFrame
    \/ \E r \in OcrRuns : OcrCancelled(r) /\ OcrRunFrame
    \/ \E r \in OcrRuns : OcrUnlinkReturns(r) /\ OcrRunFrame
    \/ \E r \in OcrRuns : OcrUnlinkFails(r) /\ OcrRunFrame

SpecOcr == InitOcr /\ [][NextOcr]_vars

\* ---------------------------------------------- claims on the question pipeline
ProviderNames == {"OpenAI", "DeepSeek"}
IsProviderCall(c) == c \in ProviderNames
ProviderCalls == SelectSeq(calls, IsProviderCall)
Contains(msg, part) == \E i \in 1..Len(msg) : msg[i] = part
AllWhitespace(q) == \A i \in 1..Len(q) : IsSpace(q[i])
NoRetrievalOrGenerationCall ==
    /\ Count(calls, "embeddings.aembed_query") = 0
    /\ Count(calls, "es.search") = 0
    /\ ProviderCalls = <<>>

\* C1: once is_index_empty has answered True (the index is missing, holds no
\* record, or the check raised), rag_answer issues no embedding call, no k-NN
\* search and no completion call, and it returns the fixed "no documents"
\* message with an empty context list.
C1_EmptyIndexShortCircuit ==
    emptyCheck = "empty" =>
        /\ NoRetrievalOrGenerationCall
        /\ rpc = "done" => ragResult = Returned(NoDocumentsMsg, <<>>)

C1_Witness ==
    /\ emptyCheck = "empty"
    /\ rpc = "done"
    /\ ~AllWhitespace(question)
    /\ Count(calls, "es.count") = 1

\* C2, as stated: a blank question ends in a validation failure, and no
\* external call at all (vector engine, embedding, completion) precedes it,
\* whatever the state of the index.
C2_Original ==
    (AllWhitespace(question) /\ rpc = "done") =>
        /\ ragResult = Raised(<<Lit("Question cannot be empty")>>)
        /\ calls = <<>>

\* C2, amended: for a blank question no embedding call, no k-NN search and no
\* completion call is ever issued; the emptiness check comes first, and the
\* call ends in the validation failure when the index was reported non-empty
\* and in the "no documents" answer when it was reported empty.
C2_BlankQuestionRejectedAfterEmptyCheck ==
    AllWhitespace(question) =>
        /\ NoRetrievalOrGenerationCall
        /\ rpc = "done" =>
              /\ emptyCheck \in {"empty", "nonempty"}
              /\ ragResult = IF emptyCheck = "empty"
                             THEN Returned(NoDocumentsMsg, <<>>)
                             ELSE Raised(<<Lit("Question cannot be empty")>>)

C2_Witness ==
    /\ question = <<" ">>
    /\ rpc = "done"
    /\ ragResult = Raised(<<Lit("Question cannot be empty")>>)
    /\ Count(calls, "es.count") = 1

\* C8: the primary provider is the first provider called and is called at
\* most once; the fallback is called exactly once when the primary raised and
\* never otherwise; the text generate_completion returns is the primary's
\* when the primary answered and the fallback's when the primary raised.
C8_FallbackOrder ==
    /\ Count(calls, llmProvider.primary_name) <= 1
    /\ ProviderCalls # <<>> => ProviderCalls[1] = llmProvider.primary_name
    /\ Count(calls, llmProvider.fallback_name)
          = IF primaryError # NoError THEN 1 ELSE 0
    /\ completion.kind = "text" =>
          completion.text = IF primaryError = NoError
                            THEN ProviderText(llmProvider.primary_name)
                            ELSE ProviderText(llmProvider.fallback_name)

C8_Witness ==
    /\ primarySetting = "deepseek"
    /\ primaryError # NoError
    /\ completion = CompletionText(ProviderText("OpenAI"))
    /\ ProviderCalls = <<"DeepSeek", "OpenAI">>

\* C9: generate_completion ends in an error exactly when the primary and the
\* fallback both raised, and the message of that error contains the cause of
\* the primary's failure and the cause of the fallback's failure.
C9_BothCausesReported ==
    /\ completion.kind = "error" <=>
          (primaryError # NoError /\ fallbackError # NoError)
    /\ completion.kind = "error" =>
          /\ Contains(completion.error, primaryError)
          /\ Contains(completion.error, fallbackError)

C9_Witness ==
    /\ completion.kind = "error"
    /\ primaryError = ErrorOf("OpenAI", "RateLimitError")
    /\ fallbackError = ErrorOf("DeepSeek", "APIConnectionError")

\* C10: when the 30 s deadline around generate_completion expired, rag_answer
\* returns the fixed apologetic message with the retrieved contexts and does
\* not raise; when both providers raised within the deadline, rag_answer
\* raises the error generate_completion raised.
C10_TimeoutMessageBothFailedRaises ==
    rpc = "done" =>
        /\ completion.kind = "cancelled" =>
              ragResult = Returned(GenerationTimeoutMsg, contexts)
        /\ completion.kind = "error" =>
              /\ ragResult.kind = "raised"
              /\ ragResult.error = BothFailedMessage(primaryError, fallbackError)

C10_Witness ==
    /\ rpc = "done"
    /\ completion.kind = "cancelled"
    /\ primaryError # NoError
    /\ ragResult.kind = "returned"

\* ------------------------------------------------ claims on the upload pipeline
PreUpsertFailures ==
    {"extract raised", "extract timeout", "ocr raised", "ocr timeout", "no text",
     "zero chunks", "embed raised", "embed timeout"}
UpsertFailures == {"upsert failed records", "upsert raised", "upsert timeout"}
RecordsOf(i) == {r \in esIndex : r.source = TmpName(i)}
IndexedUnits == {i \in Units : unitResult[i].docs = 1}
UnitState(i) ==
    <<unitPc[i], tmpCopy[i], unitChunks[i], unitCalls[i], stageFailure[i],
      pdOutcome[i], unitResult[i], insertOutcome[i], sidecar[i], extracted[i]>>

\* C3: when the upsert stage fails (async_bulk reports failed records, the
\* engine raises, or the 60 s deadline expires) process_document raises to its
\* caller instead of returning (0, 0).
C3_UpsertFailurePropagates ==
    \A i \in 1..Len(files) :
        stageFailure[i] \in UpsertFailures => pdOutcome[i].kind = "raised"

\* C4: a failure of a stage before the upsert (extraction or OCR raises or
\* times out, no text, zero chunks, the embedding raises or times out) makes
\* process_document return (0, 0) without raising, with no upsert call issued
\* and no record of the document in the index.
C4_EarlyFailureReturnsZero ==
    \A i \in 1..Len(files) :
        stageFailure[i] \in PreUpsertFailures =>
            /\ pdOutcome[i] = PdReturned(0, 0)
            /\ Count(unitCalls[i], "upsert") = 0
            /\ RecordsOf(i) = {}

C4_Witness ==
    /\ Len(files) = 2
    /\ stageFailure[1] = "embed timeout"
    /\ stageFailure[2] = "ocr raised"
    /\ unitPc[1] = "done"
    /\ unitPc[2] = "done"

\* C5: in the answer of an upload, documents_indexed plus the number of
\* failed_files entries equals the number of files submitted.
C5_EveryFileCounted ==
    response.kind # "none" =>
        response.documents_indexed + Len(response.failed_files) = Len(files)

\* C6: the upload raises exactly when no file was indexed and at least one
\* file entered the pipeline, and the error then reports every failure.
C6_RaisesIffNothingIndexed ==
    response.kind # "none" =>
        /\ response.kind = "raised" <=> (IndexedUnits = {} /\ valid_files # <<>>)
        /\ response.kind = "raised" => Len(response.failed_files) = Len(files)

\* the totals of the answer are the sums over the units' results
TotalsOfAllUnits ==
    /\ response.documents_indexed = SumOver(valid_files, 1, "docs")
    /\ response.total_chunks = SumOver(valid_files, 1, "chunks")

\* C7: the answer of an upload is computed only once every unit has ended,
\* from the results of all of them; a step of one unit (a failure or timeout
\* included) changes no other unit, and a unit that has ended stays as it
\* ended.
C7_AggregatedAfterAllUnits ==
    (upc = "done" /\ valid_files # <<>>) =>
        /\ \A i \in Units : unitPc[i] = "done" /\ unitResult[i].kind = "returned"
        /\ response.kind = "returned" => TotalsOfAllUnits

C7_UnitsIsolated ==
    \A i \in 1..Len(files) :
        /\ UnitState(i)' # UnitState(i) =>
              \A j \in 1..Len(files) \ {i} : UnitState(j)' = UnitState(j)
        /\ unitPc[i] = "done" => UnitState(i)' = UnitState(i)

C7_NonFailFastJoin == [](C7_AggregatedAfterAllUnits) /\ [][C7_UnitsIsolated]_vars

C7_Witness ==
    /\ upc = "done"
    /\ Len(files) = 2
    /\ stageFailure[1] = "extract timeout"
    /\ unitResult[1] = UnitReturned(0, 0)
    /\ unitResult[2] = UnitReturned(1, 2)
    /\ response.kind = "returned"
    /\ response.total_chunks = 2

\* ------------------------------------------------ claims on the engine handle
\* C11: with several callers inside get_client for the first time, at most
\* one AsyncElasticsearch object is constructed, indices.exists and
\* indices.create are each called at most once, and every caller that is
\* given a handle is given that one object.
C11_ConstructedOnce ==
    /\ handlesMade <= 1
    /\ Count(indexCalls, "exists") <= 1
    /\ Count(indexCalls, "create") <= 1
    /\ \A c \in DOMAIN got : got[c].kind = "handle" => got[c].handle = 1

C11_Witness ==
    /\ \E a, b, c \in Callers :
         /\ cpc[a] = "create"
         /\ cpc[b] = "lock"
         /\ got[c] = Handle(1)
    /\ indexCalls = <<"exists", "create">>

\* C12: when async_bulk has reported on the N records of an insert_chunks
\* call, M of them failed, the counts are success = N - M and failed = M (the
\* index holds the N - M records), and insert_chunks raises if and only if
\* M > 0.
C12_BulkAccounting ==
    \A i \in 1..Len(files) :
        insertOutcome[i].kind \in {"returned", "raised"} =>
            /\ insertOutcome[i].success + insertOutcome[i].n_failed = insertOutcome[i].n
            /\ insertOutcome[i].success = Cardinality(RecordsOf(i))
            /\ insertOutcome[i].kind = "raised" <=> insertOutcome[i].n_failed > 0

C12_Witness ==
    \E i, j \in 1..Len(files) :
        /\ insertOutcome[i] = [kind |-> "raised", n |-> 2, success |-> 1, n_failed |-> 1]
        /\ insertOutcome[j] = [kind |-> "returned", n |-> 2, success |-> 2, n_failed |-> 0]

\* C13: once a unit has ended, on any path, the temporary copy of the upload,
\* the output PDF of the OCR run and its sidecar text file are gone.
C13_TempFilesReleased ==
    \A i \in 1..Len(files) :
        unitPc[i] = "done" => ~tmpCopy[i] /\ ~OcrTmpPdf(i) /\ ~sidecar[i]

\* ------------------------------------------------- claims on normalize_text
\* the text t holds the characters a, b next to each other
HasPair(t, a, b) == \E k \in 1..(Len(t) - 1) : t[k] = a /\ t[k + 1] = b

\* C14: normalize_text is idempotent: normalizing a normalized text gives the
\* same text.
C14_NormalizeIdempotent == tpc = "twice" => renormalized = normalized

\* C15: a normalized text holds no "-\n", no two consecutive newlines, no two
\* consecutive spaces or tabs, and neither starts nor ends with whitespace.
C15_NormalizedForm ==
    tpc \in {"once", "twice"} =>
        /\ ~HasPair(normalized, "-", "\n")
        /\ ~HasPair(normalized, "\n", "\n")
        /\ \A a, b \in {" ", "\t"} : ~HasPair(normalized, a, b)
        /\ normalized # <<>> =>
              ~IsSpace(normalized[1]) /\ ~IsSpace(normalized[Len(normalized)])

\* ------------------------------------------------- claims on is_index_empty
\* the coroutine is inside is_index_empty, get_client called from it included
InIsIndexEmpty ==
    \/ rpc \in {"ie_exists", "ie_count"}
    \/ rpc \in {"gc", "gc_exists", "gc_create"} /\ gcRet = "ie_exists"

\* C16: is_index_empty never raises; it answers False only when count is
\* answered for an existing index holding records; it answers True when the
\* index is missing or holds nothing, and when any call of the check raises,
\* get_client's included.
C16_Step ==
    InIsIndexEmpty =>
        /\ ragResult' = ragResult
        /\ rpc' # "done"
        /\ rpc' = "ie_done" => emptyCheck' \in {"empty", "nonempty"}
        /\ emptyCheck' = "nonempty" =>
              rpc = "ie_count" /\ indexExists /\ Cardinality(esIndex) > 0
        /\ (rpc' = "ie_done" /\ (~indexExists \/ esIndex = {})) => emptyCheck' = "empty"

C16_IsEmptyFailSafe == [][C16_Step]_vars

C16_Witness ==
    /\ rpc = "ie_done"
    /\ emptyCheck = "empty"
    /\ indexExists
    /\ esIndex # {}

\* --------------------------------------------------- claims on the health check
\* C17: check_health answers "Service is healthy" for the cluster status
\* green and "Service is degraded" for yellow, and a red status when the
\* index is missing or a call raised; it never raises.
C17_HealthMapping ==
    hpc \in {"checked", "done"} =>
        /\ health_info.status \in ClusterStatuses
        /\ health_info.status = "green" => health_info.message = "Service is healthy"
        /\ health_info.status = "yellow" => health_info.message = "Service is degraded"
        /\ health_info \in {IndexMissingInfo, UnavailableInfo} => health_info.status = "red"

\* ------------------------------------------------- claims on generate_answer
\* C18: when the index was found non-empty and retrieve_context returned no
\* contexts, rag_answer returns the "insufficient context" answer with an
\* empty context list; no provider is built or called and no prompt made.
C18_Step ==
    (rpc = "generate" /\ contexts = <<>> /\ rpc' # rpc) =>
        /\ rpc' = "done"
        /\ ragResult' = Returned(InsufficientContextMsg, <<>>)
        /\ calls' = calls
        /\ UNCHANGED generationVars

C18_NoProviderUsed ==
    (rpc = "done" /\ ragResult = Returned(InsufficientContextMsg, <<>>)) =>
        /\ ProviderCalls = <<>>
        /\ prompt = NoPrompt
        /\ completion = NoCompletion

C18_InsufficientContext == [](C18_NoProviderUsed) /\ [][C18_Step]_vars

C18_Witness ==
    /\ rpc = "done"
    /\ emptyCheck = "nonempty"
    /\ questionVector # <<>>
    /\ ragResult = Returned(InsufficientContextMsg, <<>>)
    /\ primarySetting = "deepseek"

\* C19: when retrieve_context returned contexts, one prompt holds all of them
\* in order and the question, generate_completion is entered once (the primary
\* is called once, the fallback at most once), and a generated text is
\* returned with exactly the retrieved contexts, in their order.
C19_OnePromptOneGeneration ==
    (rpc \in {"primary", "fallback", "gen_done", "done"} /\ contexts # <<>>) =>
        /\ prompt.question = question
        /\ Len(prompt.context) = 2 * Len(contexts) - 1
        /\ \A k \in 1..Len(contexts) : prompt.context[2 * k - 1] = contexts[k]
        /\ Count(calls, llmProvider.primary_name) = 1
        /\ Count(calls, llmProvider.fallback_name) <= 1
        /\ (rpc = "done" /\ completion.kind = "text") =>
              /\ ragResult = Returned(completion.text, contexts)
              /\ completion.text \in {ProviderText(name) : name \in ProviderNames}
        /\ (rpc = "done" /\ ragResult.kind = "returned") => ragResult.contexts = contexts

C19_Witness ==
    /\ rpc = "done"
    /\ Len(contexts) = 2
    /\ contexts[1] # contexts[2]
    /\ ProviderCalls = <<"OpenAI">>
    /\ ragResult = Returned(ProviderText("OpenAI"), contexts)

\* ---------------------------------------------- claims on the validation of uploads
\* C20: a file whose name does not end in .pdf is listed in failed_files with
\* the reason "not a PDF", a reason no other failure carries, and never enters
\* the pipeline (no unit, no temporary copy, no process_document call); the
\* valid files of the upload are processed and their chunks are in the total.
C20_RejectedNeverProcessed ==
    /\ \A i \in 1..Len(files) :
         files[i] = TxtName(i) =>
             /\ upc # "start" =>
                   \E k \in 1..Len(failed_files) :
                       failed_files[k] = Failed(files[i], "not a PDF")
             /\ unitPc[i] = "pending"
             /\ ~tmpCopy[i]
             /\ unitCalls[i] = <<>>
             /\ pdOutcome[i] = PdPending
             /\ unitResult[i] = UnitPending
    /\ \A k \in 1..Len(failed_files) :
         failed_files[k].reason = "not a PDF" <=>
             \E i \in 1..Len(files) : failed_files[k].filename = TxtName(i)
    /\ (upc = "done" /\ valid_files # <<>>) =>
         /\ \A i \in 1..Len(files) : files[i] = PdfName(i) => unitPc[i] = "done"
         /\ response.kind = "returned" =>
               response.total_chunks = SumOver(valid_files, 1, "chunks")

C20_Witness ==
    /\ files = <<TxtName(1), PdfName(2)>>
    /\ response = DocumentResponse("Some documents failed to process", 1, 2,
                                   <<Failed(TxtName(1), "not a PDF")>>)

\* ------------------------------------------------- claims on the index records
Ids(records) == {r.id : r \in records}

\* C21: the index only grows: no step removes or replaces a record, each
\* insert_chunks that returns for n chunks adds n records whose identifiers
\* differ from each other and from every identifier already there, and the
\* chunks of a document uploaded again are in the index twice.
C21_IdsUnique == Cardinality(Ids(esIndex)) = Cardinality(esIndex)

C21_NoDeduplication ==
    (Len(files) >= 1 /\ insertOutcome[1].kind = "returned"
       /\ insertOutcome[1].n = MaxChunks) =>
        \A k \in 1..MaxChunks :
            Cardinality({r \in esIndex : r.content = <<TmpName(1), k>>}) = 2

C21_Step ==
    /\ esIndex \subseteq esIndex'
    /\ \A i \in 1..Len(files) :
         (insertOutcome[i].kind = "none" /\ insertOutcome'[i].kind = "returned") =>
             /\ Cardinality(esIndex' \ esIndex) = insertOutcome'[i].n
             /\ Cardinality(Ids(esIndex' \ esIndex)) = insertOutcome'[i].n
             /\ Ids(esIndex' \ esIndex) \cap Ids(esIndex) = {}

C21_AppendOnly ==
    [](C21_IdsUnique /\ C21_NoDeduplication) /\ [][C21_Step]_vars

C21_Witness ==
    /\ Len(files) = 2
    /\ insertOutcome[1].kind = "returned"
    /\ insertOutcome[1].n = MaxChunks
    /\ insertOutcome[2].kind = "returned"
    /\ Cardinality(esIndex) = 2 * MaxChunks + insertOutcome[2].n


\* ---------------------------------------------------------------------
\* C22 (as stated): a timeout of the embedding call or of the k-NN search
\* never surfaces as an error of rag_answer
C22_Original ==
    ~(ragResult.kind = "raised" /\ ragResult.error = <<Lit("TimeoutError")>>)

C22_Step ==
    /\ (rpc = "embed" /\ rpc' # "embed") =>
          \/ rpc' = "gc" /\ questionVector' # <<>> /\ ragResult' = NoResult
          \/ rpc' = "done" /\ ragResult'.kind = "raised"
    /\ (rpc = "search" /\ rpc' # "search") =>
          \/ /\ rpc' = "generate"
             /\ ragResult' = NoResult
             /\ contexts' = <<>> => (~indexExists \/ esIndex = {})
          \/ rpc' = "done" /\ ragResult'.kind = "raised"

\* C22 (amended): the embedding call and the k-NN search end either with
\* their result or with an error that leaves rag_answer (a timeout among
\* them); retrieval is empty only when the index is missing or has no record
C22_TimeoutSurfaces == [][C22_Step]_vars

C22_Witness ==
    /\ ragResult = Raised(<<Lit("TimeoutError")>>)
    /\ questionVector # <<>>
    /\ esIndex # {}
    /\ "es.search" \in {calls[i] : i \in 1..Len(calls)}


\* ---------------------------------------------------------------------
C25_Step ==
    (rpc = "search" /\ rpc' = "generate" /\ ~indexExists) =>
        /\ contexts' = <<>>
        /\ ragResult' = NoResult

\* C25: a k-NN search of a missing index makes retrieve_context return the
\* empty list as a normal result, and NotFoundError is never the error
\* rag_answer raises
C25_IndexNotFoundIsEmpty ==
    /\ [](ragResult.kind = "raised" => ragResult.error # <<Lit("NotFoundError")>>)
    /\ [](("es.search" \in {calls[i] : i \in 1..Len(calls)} /\ contexts = <<>>
            /\ ragResult.kind = "returned")
           => ragResult = Returned(InsufficientContextMsg, <<>>))
    /\ [][C25_Step]_vars

C25_Witness ==
    /\ rpc = "done"
    /\ ~indexExists
    /\ "es.search" \in {calls[i] : i \in 1..Len(calls)}
    /\ ragResult = Returned(InsufficientContextMsg, <<>>)


\* ---------------------------------------------------------------------
\* the stage calls of process_document, without and with the OCR fallback
ExtractOrder == <<"extract", "embed", "upsert">>
OcrOrder == <<"extract", "ocr", "embed", "upsert">>

IsPrefix(s, t) == Len(s) <= Len(t) /\ \A n \in 1..Len(s) : s[n] = t[n]

\* the stage a failure belongs to
StageOf(failure) ==
    CASE failure \in {"extract raised", "extract timeout"} -> {"extract"}
      [] failure \in {"ocr raised", "ocr timeout"} -> {"ocr"}
      [] failure \in {"no text", "zero chunks"} -> {"extract", "ocr"}
      [] failure \in {"embed raised", "embed timeout"} -> {"embed"}
      [] failure \in {"upsert raised", "upsert timeout", "upsert failed records"}
           -> {"upsert"}
      [] OTHER -> {}

\* C23: the stage calls of every document are issued in the order extract,
\* (ocr), embed, upsert, none after a failed stage; run_ocrmypdf is called
\* exactly when extract_text_from_pdf returned None, never when it returned
\* text, raised or timed out; the embedding is called with chunks only
C23_StageOrder ==
    \A i \in 1..Len(files) :
        LET called == {unitCalls[i][n] : n \in 1..Len(unitCalls[i])} IN
        /\ IsPrefix(unitCalls[i], ExtractOrder) \/ IsPrefix(unitCalls[i], OcrOrder)
        /\ "ocr" \in called <=> extracted[i] = "None"
        /\ extracted[i] \in {"text", "failed"} => "ocr" \notin called
        /\ extracted[i] = "pending" <=> unitPc[i] \in {"pending", "read", "extract"}
             \/ "extract" \notin called
        /\ stageFailure[i] \notin {"none", "file not found"} =>
             /\ unitPc[i] = "done"
             /\ unitCalls[i][Len(unitCalls[i])] \in StageOf(stageFailure[i])
        /\ unitPc[i] \in {"embed", "upsert"} =>
             /\ unitChunks[i] > 0
             /\ unitCalls[i][Len(unitCalls[i])] = unitPc[i]

C23_Witness ==
    \E i \in 1..Len(files) :
        /\ extracted[i] = "None"
        /\ unitCalls[i] = OcrOrder
        /\ pdOutcome[i] = PdReturned(1, MaxChunks)
        /\ \E j \in 1..Len(files) :
             /\ extracted[j] = "failed"
             /\ unitCalls[j] = <<"extract">>
             /\ unitPc[j] = "done"


\* ---------------------------------------------------------------------
\* claims on run_ocrmypdf
C24_State ==
    \A r \in OcrRuns :
        /\ opc[r] \in {"spawn", "communicate", "read", "finally"} => ocrTmp[r]
        /\ ocrOutcome[r].kind # "none" <=> opc[r] \in {"finally", "done"}
        /\ opc[r] = "done" =>
             ocrTmp[r] <=> (ocrLog[r] # <<>> /\ ocrLog[r][Len(ocrLog[r])] = "warning")
        /\ (opc[r] = "done" /\ ocrOutcome[r].kind = "raised") =>
             ocrLog[r][1] = "error"

C24_Step ==
    \A r \in OcrRuns :
        /\ (opc[r] # "done" /\ opc'[r] = "done") =>
             /\ opc[r] = "finally"
             /\ ocrOutcome'[r] = ocrOutcome[r]
        /\ opc[r] = "done" => ocrOutcome'[r] = ocrOutcome[r]

\* C24: every way out of run_ocrmypdf (the text returned, an error of the
\* subprocess or of reading the sidecar, the caller's cancellation) runs the
\* unlink of the temporary PDF, which is gone afterwards unless the unlink
\* itself failed; that failure is logged as a warning and run_ocrmypdf ends
\* as it would have ended without it
C24_TmpPdfDeleted == []C24_State /\ [][C24_Step]_vars

C24_Witness ==
    /\ opc[1] = "done" /\ ocrOutcome[1] = OcrCancelledError /\ ~ocrTmp[1]
    /\ opc[2] = "done" /\ ocrOutcome[2].kind = "returned" /\ ocrTmp[2]
    /\ ocrLog[2] = <<"warning">>


\* ---------------------------------------------------------------------
\* C26: an upload without any file ends in a validation error: an
\* HTTPException, not a DocumentResponse
C26_EmptyUploadIsValidationError ==
    (files = <<>> /\ upc = "done") => response.kind = "raised"


\* ---------------------------------------------------------------------
\* C27: no caller has the handle while the call that constructed it is
\* still inside create_index
C27_NoHandleBeforeIndexReady ==
    \A c \in DOMAIN got :
        got[c].kind = "handle" =>
            \A a \in DOMAIN cpc : cpc[a] \notin {"exists", "create"}

\* C28: when get_client raises because create_index failed, cls._instance
\* is not left assigned
C28_Step ==
    \A c \in DOMAIN got :
        (got[c].kind = "none" /\ got'[c].kind = "raised") => ~esInstance'

C28_NoHandleCachedAfterFailure == [][C28_Step]_vars

\* C29: whatever the interleaving with close(), get_client never returns
\* None
C29_NeverNullHandle == \A c \in DOMAIN got : got[c].kind # "null"


\* ---------------------------------------------------------------------
\* the records in the index of documents reported with no chunk
RecordsOfUncounted ==
    {r \in esIndex : \E i \in 1..Len(files) :
                        r.source = TmpName(i) /\ unitResult[i].docs = 0}

C31_State ==
    completion.kind = "cancelled" =>
        /\ rpc \in {"gen_done", "done"}
        /\ primaryError = NoError =>
              /\ ProviderCalls = <<llmProvider.primary_name>>
              /\ fallbackError = NoError
        /\ rpc = "done" => ragResult = Returned(GenerationTimeoutMsg, contexts)

C31_Step ==
    /\ (rpc = "primary" /\ completion'.kind = "cancelled") =>
          /\ rpc' = "gen_done"
          /\ calls' = calls
          /\ primaryError' = NoError
    /\ completion.kind = "cancelled" =>
          /\ calls' = calls
          /\ completion' = completion
          /\ primaryError' = primaryError

\* C31: when the 30 s deadline expires during the primary's call, the
\* primary is not recorded as failed, no provider is called from then on (the
\* fallback never), and rag_answer returns the fixed apologetic message
C31_DeadlineStartsNoFallback == []C31_State /\ [][C31_Step]_vars

C31_Witness ==
    /\ rpc = "done"
    /\ completion.kind = "cancelled"
    /\ primaryError = NoError
    /\ primarySetting = "deepseek"
    /\ ProviderCalls = <<"DeepSeek">>
    /\ ragResult = Returned(GenerationTimeoutMsg, contexts)
    /\ contexts # <<>>

====
